---- MODULE Spec2Model ----
(***************************************************************************)
(* A model of the utility modules of the geospatial dashboard:             *)
(*   - utils/stateNavigation.js (bounding boxes and deck.gl view states)   *)
(*   - utils/colorScale.js      (choropleth colours, ranges, legends)      *)
(*   - utils/mapHelpers.js      (joining a GeoJSON with a value map)       *)
(*   - utils/dataLoader.js      (the cached loaders of the storage files)  *)
(*   - utils/darkMode.js        (the stored theme and the 'dark' class)    *)
(*   - components/InfoPanel.jsx (the statistics of the selected region)    *)
(*                                                                         *)
(* JavaScript values are records tagged by the field t.  A number is       *)
(*   [t |-> "num", n |-> numerator, d |-> denominator]  (d > 0, lowest     *)
(*   terms), [t |-> "inf", n |-> 1 or -1] or [t |-> "nan"];                *)
(* null and undefined are [t |-> "null"] and [t |-> "undefined"]; a string *)
(* is [t |-> "str", s |-> ...] and an array [t |-> "array", a |-> <<...>>]. *)
(* Arithmetic is exact on the finite values and follows IEEE 754 on the    *)
(* infinities and NaN.                                                     *)
(***************************************************************************)
EXTENDS Integers, Sequences, FiniteSets

\* arg: the call the caller makes (the function and its arguments)
\* pc:  "ready" before the call, "returned" after it
\* ret: the value the call returned
VARIABLES arg, pc, ret

\* utils/dataLoader.js
\* cache:  the module's cache object
\* calls:  the calls of the loaders made so far, in the order they started
\* epoch:  the number of clearCache calls so far
\* loaded: what has happened to each storage file since the last clearCache
VARIABLES cache, calls, epoch, loaded

loaderVars == <<cache, calls, epoch, loaded>>

\* utils/darkMode.js
\* storedTheme: localStorage.getItem('theme')
\* darkClass:   whether document.documentElement has the class 'dark'
\* prefersDark: whether (prefers-color-scheme: dark) matches
\* themeLog:    the calls made so far: the number of toggleTheme calls, the
\*              last two calls, and darkClass before each of them
VARIABLES storedTheme, darkClass, prefersDark, themeLog

themeVars == <<storedTheme, darkClass, prefersDark, themeLog>>

vars == <<arg, pc, ret, loaderVars, themeVars>>

(***************************************************************************)
(* Bounds of the model.                                                    *)
(***************************************************************************)
\* bounding-box corners range over -MaxHalfDeg/2 .. MaxHalfDeg/2 degrees
MaxHalfDeg == 9
\* finite data values and range ends range over -1 .. MaxVal
MaxVal == 4
\* a value map holds at most MaxEntries entries
MaxEntries == 3
\* a legend has 1 .. MaxSteps intervals (or the default number)
MaxSteps == 4
\* the coordinates of a feature's points range over -MaxCoord .. MaxCoord degrees
MaxCoord == 1
\* the loaders are called at most MaxCalls times
MaxCalls == 2
\* clearCache is called at most MaxClears times
MaxClears == 1
\* toggleTheme is called at most MaxToggles times
MaxToggles == 3

(***************************************************************************)
(* JavaScript numbers.                                                     *)
(***************************************************************************)
Abs(i) == IF i < 0 THEN -i ELSE i

RECURSIVE Gcd(_, _)
Gcd(a, b) == IF b = 0 THEN a ELSE Gcd(b, a % b)

\* the finite number n/d, for d # 0, in lowest terms with a positive denominator
JsNum(n, d) ==
    LET g == Gcd(Abs(n), Abs(d))
        s == IF d < 0 THEN -1 ELSE 1
    IN  [t |-> "num", n |-> (s * n) \div g, d |-> (s * d) \div g]

PosInf == [t |-> "inf", n |-> 1]
NegInf == [t |-> "inf", n |-> -1]
NaN == [t |-> "nan"]
Null == [t |-> "null"]
Undefined == [t |-> "undefined"]
Str(s) == [t |-> "str", s |-> s]
\* an array with the elements of the sequence a
Arr(a) == [t |-> "array", a |-> a]

Sign(x) == IF x.n > 0 THEN 1 ELSE IF x.n < 0 THEN -1 ELSE 0
InfOf(s) == IF s > 0 THEN PosInf ELSE NegInf

\* ToNumber: null is 0, undefined is NaN, a number is itself
ToNumber(x) ==
    CASE x.t = "null" -> JsNum(0, 1)
      [] x.t = "undefined" -> NaN
      [] OTHER -> x

\* the global isNaN(x), which converts its argument to a number first
isNaN(x) == ToNumber(x).t = "nan"

\* x == null, true of null and undefined only
LooseEqNull(x) == x.t \in {"null", "undefined"}

\* !x for the values of the model (0 and NaN are falsy, as null and undefined)
Falsy(x) ==
    \/ x.t \in {"null", "undefined", "nan"}
    \/ x.t = "num" /\ x.n = 0
    \/ x.t = "str" /\ x.s = ""

\* a || b
JsOr(a, b) == IF Falsy(a) THEN b ELSE a

\* a + b
JsAdd(a, b) ==
    CASE a.t = "nan" \/ b.t = "nan" -> NaN
      [] a.t = "inf" /\ b.t = "inf" -> IF a.n = b.n THEN a ELSE NaN
      [] a.t = "inf" -> a
      [] b.t = "inf" -> b
      [] OTHER -> JsNum(a.n * b.d + b.n * a.d, a.d * b.d)

\* -a
JsNeg(a) ==
    CASE a.t = "nan" -> NaN
      [] a.t = "inf" -> InfOf(-a.n)
      [] OTHER -> JsNum(-a.n, a.d)

\* a - b
JsSub(a, b) == JsAdd(a, JsNeg(b))

\* a * b
JsMul(a, b) ==
    CASE a.t = "nan" \/ b.t = "nan" -> NaN
      [] a.t = "inf" \/ b.t = "inf" ->
            IF Sign(a) * Sign(b) = 0 THEN NaN ELSE InfOf(Sign(a) * Sign(b))
      [] OTHER -> JsNum(a.n * b.n, a.d * b.d)

\* a / b
JsDiv(a, b) ==
    CASE a.t = "nan" \/ b.t = "nan" -> NaN
      [] a.t = "inf" /\ b.t = "inf" -> NaN
      [] a.t = "inf" -> InfOf(IF Sign(b) < 0 THEN -a.n ELSE a.n)
      [] b.t = "inf" -> JsNum(0, 1)
      [] b.n = 0 -> IF a.n = 0 THEN NaN ELSE InfOf(Sign(a))
      [] OTHER -> JsNum(a.n * b.d, a.d * b.n)

\* a < b; false when either side is NaN
JsLt(a, b) ==
    CASE a.t = "nan" \/ b.t = "nan" -> FALSE
      [] a.t = "inf" /\ b.t = "inf" -> a.n < b.n
      [] a.t = "inf" -> a.n < 0
      [] b.t = "inf" -> b.n > 0
      [] OTHER -> a.n * b.d < b.n * a.d

\* a === b on numbers; NaN equals nothing
JsStrictEq(a, b) == a.t # "nan" /\ b.t # "nan" /\ a = b

\* a <= b; false when either side is NaN
JsLe(a, b) == JsLt(a, b) \/ JsStrictEq(a, b)

\* Math.max(a, b) and Math.min(a, b): NaN when either argument is NaN
MathMax(a, b) ==
    IF a.t = "nan" \/ b.t = "nan" THEN NaN ELSE IF JsLt(a, b) THEN b ELSE a

MathMin(a, b) ==
    IF a.t = "nan" \/ b.t = "nan" THEN NaN ELSE IF JsLt(b, a) THEN b ELSE a

\* Math.floor(a): the infinities and NaN are returned unchanged
MathFloor(a) ==
    IF a.t = "num" THEN JsNum(a.n \div a.d, 1) ELSE a

\* Math.round(a) is floor(a + 1/2): a half rounds up, towards +Infinity
MathRound(a) ==
    IF a.t = "num" THEN JsNum((2 * a.n + a.d) \div (2 * a.d), 1) ELSE a

(***************************************************************************)
(* utils/stateNavigation.js                                                *)
(***************************************************************************)
\* the national view at zoom 5
DEFAULT_VIEW_STATE_zoom5 ==
    [longitude |-> JsNum(-1025528, 10000),
     latitude |-> JsNum(236345, 10000),
     zoom |-> JsNum(5, 1),
     pitch |-> JsNum(0, 1),
     bearing |-> JsNum(0, 1)]

DEFAULT_VIEW_STATE ==
    [longitude |-> JsNum(-1025528, 10000),
     latitude |-> JsNum(236345, 10000),
     zoom |-> JsNum(9, 2),
     pitch |-> JsNum(0, 1),
     bearing |-> JsNum(0, 1)]

\* new FlyToInterpolator()
FlyToInterpolator == [t |-> "object", class |-> "FlyToInterpolator"]

\* the zoom tiers with the first breakpoint inclusive (maxDiff <= 1)
ZoomFor_inclusiveFirstTier(maxDiff) ==
    IF JsLe(maxDiff, JsNum(1, 1)) THEN JsNum(8, 1)
    ELSE IF JsLt(maxDiff, JsNum(2, 1)) THEN JsNum(7, 1)
    ELSE IF JsLt(maxDiff, JsNum(4, 1)) THEN JsNum(6, 1)
    ELSE IF JsLt(maxDiff, JsNum(6, 1)) THEN JsNum(11, 2)
    ELSE IF JsLt(maxDiff, JsNum(8, 1)) THEN JsNum(5, 1)
    ELSE JsNum(9, 2)

\* the zoom tier of calculateViewStateForBounds
ZoomFor(maxDiff) ==
    IF JsLt(maxDiff, JsNum(1, 1)) THEN JsNum(8, 1)
    ELSE IF JsLt(maxDiff, JsNum(2, 1)) THEN JsNum(7, 1)
    ELSE IF JsLt(maxDiff, JsNum(4, 1)) THEN JsNum(6, 1)
    ELSE IF JsLt(maxDiff, JsNum(6, 1)) THEN JsNum(11, 2)
    ELSE IF JsLt(maxDiff, JsNum(8, 1)) THEN JsNum(5, 1)
    ELSE JsNum(9, 2)

\* the span the zoom is chosen from: max of the latitude and longitude spans
MaxDiff(bounds) ==
    LET latDiff == JsSub(bounds.maxLat, bounds.minLat)
        lngDiff == JsSub(bounds.maxLng, bounds.minLng)
    IN  MathMax(latDiff, lngDiff)

\* calculateViewStateForBounds with the centre taken from half the span
calculateViewStateForBounds_halfSpan(bounds) ==
    IF Falsy(bounds) THEN DEFAULT_VIEW_STATE
    ELSE
        [longitude |-> JsDiv(JsSub(bounds.maxLng, bounds.minLng), JsNum(2, 1)),
         latitude |-> JsDiv(JsSub(bounds.maxLat, bounds.minLat), JsNum(2, 1)),
         zoom |-> ZoomFor(MaxDiff(bounds)),
         pitch |-> JsNum(0, 1),
         bearing |-> JsNum(0, 1),
         transitionDuration |-> JsNum(1500, 1),
         transitionInterpolator |-> FlyToInterpolator]

\* options.padding is read and never used, so the result depends on bounds only
calculateViewStateForBounds(bounds) ==
    IF Falsy(bounds) THEN DEFAULT_VIEW_STATE
    ELSE
        [longitude |-> JsDiv(JsAdd(bounds.minLng, bounds.maxLng), JsNum(2, 1)),
         latitude |-> JsDiv(JsAdd(bounds.minLat, bounds.maxLat), JsNum(2, 1)),
         zoom |-> ZoomFor(MaxDiff(bounds)),
         pitch |-> JsNum(0, 1),
         bearing |-> JsNum(0, 1),
         transitionDuration |-> JsNum(1500, 1),
         transitionInterpolator |-> FlyToInterpolator]

\* the coordinates a bounding-box corner is drawn from: half degrees
Coords == {JsNum(k, 2) : k \in -MaxHalfDeg..MaxHalfDeg}

\* the box getStateBoundingBox returns for a feature with no coordinate pair
EmptyBox ==
    [t |-> "object", minLng |-> PosInf, maxLng |-> NegInf,
     minLat |-> PosInf, maxLat |-> NegInf]

\* the boxes getStateBoundingBox returns
Boxes ==
    {[t |-> "object", minLng |-> a, maxLng |-> b, minLat |-> c, maxLat |-> e] :
        <<a, b>> \in {p \in Coords \X Coords : JsLe(p[1], p[2])},
        <<c, e>> \in {p \in Coords \X Coords : JsLe(p[1], p[2])}}
    \cup {EmptyBox}

\* arr.length
Length(arr) == JsNum(Len(arr.a), 1)

\* arr[i] for a number i: undefined unless i is an integer index of arr
At(arr, i) ==
    IF i.t = "num" /\ i.d = 1 /\ i.n >= 0 /\ i.n < Len(arr.a)
    THEN arr.a[i.n + 1]
    ELSE Undefined

\* the TypeError raised by reading a property of null or undefined
TypeError == [t |-> "throw", error |-> "TypeError"]

\* typeof x === 'number'
IsNumber(x) == x.t \in {"num", "inf", "nan"}

\* the point branch with the latitude bounds taken from coords[0]
ExtendBox_latFromLng(box, coords) ==
    [t |-> "object",
     minLng |-> MathMin(box.minLng, ToNumber(At(coords, JsNum(0, 1)))),
     maxLng |-> MathMax(box.maxLng, ToNumber(At(coords, JsNum(0, 1)))),
     minLat |-> MathMin(box.minLat, ToNumber(At(coords, JsNum(0, 1)))),
     maxLat |-> MathMax(box.maxLat, ToNumber(At(coords, JsNum(0, 1))))]

\* the point branch of processCoordinates: coords is [lng, lat]
ExtendBox(box, coords) ==
    [t |-> "object",
     minLng |-> MathMin(box.minLng, ToNumber(At(coords, JsNum(0, 1)))),
     maxLng |-> MathMax(box.maxLng, ToNumber(At(coords, JsNum(0, 1)))),
     minLat |-> MathMin(box.minLat, ToNumber(At(coords, JsNum(1, 1)))),
     maxLat |-> MathMax(box.maxLat, ToNumber(At(coords, JsNum(1, 1))))]

\* processCoordinates(coords) acting on the running bounds; forEach(list, box)
\* is coords.forEach(processCoordinates) over the elements left in list
RECURSIVE processCoordinates(_, _)
processCoordinates(coords, box) ==
    LET RECURSIVE forEach(_, _)
        forEach(list, b) ==
            IF list = <<>> THEN b
            ELSE forEach(Tail(list), processCoordinates(Head(list), b))
    IN  IF IsNumber(At(coords, JsNum(0, 1))) THEN ExtendBox(box, coords)
        ELSE forEach(coords.a, box)

\* geojson.features.find(f => f.properties.id === stateId)
RECURSIVE FindFeature(_, _)
FindFeature(features, stateId) ==
    IF features = <<>> THEN Undefined
    ELSE IF LooseEqNull(Head(features).properties) THEN TypeError
    ELSE IF Head(features).properties.id = stateId THEN Head(features)
    ELSE FindFeature(Tail(features), stateId)

\* getStateBoundingBox without the test for a feature that was not found
getStateBoundingBox_noFeatureGuard(geojson, stateId) ==
    IF Falsy(geojson) THEN Null
    ELSE IF Falsy(geojson.features) THEN Null
    ELSE
        LET feature == FindFeature(geojson.features.a, stateId)
        IN  IF feature = TypeError THEN TypeError
            ELSE IF LooseEqNull(feature) THEN TypeError
            ELSE IF LooseEqNull(feature.geometry) THEN TypeError
            ELSE processCoordinates(feature.geometry.coordinates, EmptyBox)

getStateBoundingBox(geojson, stateId) ==
    IF Falsy(geojson) THEN Null
    ELSE IF Falsy(geojson.features) THEN Null
    ELSE
        LET feature == FindFeature(geojson.features.a, stateId)
        IN  IF feature = TypeError THEN TypeError
            ELSE IF Falsy(feature) THEN Null
            ELSE IF LooseEqNull(feature.geometry) THEN TypeError
            ELSE processCoordinates(feature.geometry.coordinates, EmptyBox)

\* a feature with the identifying property id and the coordinates coords
Feature(id, coords) ==
    [t |-> "object",
     properties |-> [t |-> "object", id |-> id],
     geometry |-> [t |-> "object", coordinates |-> coords]]

\* a FeatureCollection with the features of the sequence fs
FeatureCollection(fs) == [t |-> "object", features |-> Arr(fs)]

\* the points of the features: whole degrees
GeoPoints ==
    {Arr(<<JsNum(x, 1), JsNum(y, 1)>>) : x \in -MaxCoord..MaxCoord, y \in -MaxCoord..MaxCoord}

\* the points on the diagonal
DiagonalPoints == {Arr(<<JsNum(x, 1), JsNum(x, 1)>>) : x \in -MaxCoord..MaxCoord}

\* coordinates as nested as those of a Point, a LineString, a Polygon (a
\* closed ring), a MultiPolygon and one level deeper, and coordinates
\* without any point
Geometries ==
    GeoPoints
    \cup {Arr(<<p, q>>) : p \in GeoPoints, q \in GeoPoints}
    \cup {Arr(<<Arr(<<p, q, r, p>>)>>) :
            p \in GeoPoints, q \in GeoPoints, r \in DiagonalPoints}
    \cup {Arr(<<Arr(<<Arr(<<p, p>>)>>), Arr(<<Arr(<<q>>)>>)>>) :
            p \in GeoPoints, q \in GeoPoints}
    \cup {Arr(<<Arr(<<Arr(<<Arr(<<p>>)>>), Arr(<<>>)>>), Arr(<<Arr(<<Arr(<<q>>)>>)>>)>>) :
            p \in GeoPoints, q \in GeoPoints}
    \cup {Arr(<<>>), Arr(<<Arr(<<>>)>>)}

\* another feature of the collection: a one-point polygon away from GeoPoints
OtherFeature(id) ==
    Feature(id, Arr(<<Arr(<<Arr(<<JsNum(MaxCoord + 5, 1), JsNum(-MaxCoord - 5, 1)>>)>>)>>))

\* the collections around a feature "A": alone, after a feature "B", before
\* a second feature "A", and after a feature without an id
Places == {"alone", "afterB", "beforeA", "afterNoId"}

CollectionWith(f, place) ==
    CASE place = "alone" -> FeatureCollection(<<f>>)
      [] place = "afterB" -> FeatureCollection(<<OtherFeature(Str("B")), f>>)
      [] place = "beforeA" -> FeatureCollection(<<f, OtherFeature(Str("A"))>>)
      [] place = "afterNoId" -> FeatureCollection(<<OtherFeature(Undefined), f>>)

\* collections in which no feature has the id "A", and no collection at all
CollectionsWithout ==
    {Null, Undefined,
     [t |-> "object", features |-> Undefined],
     [t |-> "object", features |-> Null],
     FeatureCollection(<<>>),
     FeatureCollection(<<OtherFeature(Str("B"))>>),
     FeatureCollection(<<OtherFeature(Str("B")), OtherFeature(Undefined)>>)}

BoundingBoxCalls ==
    {[fn |-> "getStateBoundingBox",
      geojson |-> CollectionWith(Feature(Str("A"), g), place),
      stateId |-> Str("A")] : g \in Geometries, place \in Places}
    \cup {[fn |-> "getStateBoundingBox", geojson |-> c, stateId |-> Str("A")] :
            c \in CollectionsWithout}
    \cup {[fn |-> "getStateBoundingBox",
           geojson |-> CollectionWith(Feature(Str("A"), Arr(<<JsNum(0, 1), JsNum(0, 1)>>)), place),
           stateId |-> Str("C")] : place \in Places}

getViewStateForState(geojson, stateId) ==
    LET bounds == getStateBoundingBox(geojson, stateId)
    IN  IF bounds = TypeError THEN TypeError
        ELSE calculateViewStateForBounds(bounds)

getDefaultViewState ==
    [longitude |-> DEFAULT_VIEW_STATE.longitude,
     latitude |-> DEFAULT_VIEW_STATE.latitude,
     zoom |-> DEFAULT_VIEW_STATE.zoom,
     pitch |-> DEFAULT_VIEW_STATE.pitch,
     bearing |-> DEFAULT_VIEW_STATE.bearing,
     transitionDuration |-> JsNum(1500, 1),
     transitionInterpolator |-> FlyToInterpolator]

\* the calls of getViewStateForState: for a feature that is a single point
\* or has no point, for an id no feature has, and for no collection
ViewStateCalls ==
    {[fn |-> "getViewStateForState",
      geojson |-> CollectionWith(Feature(Str("A"), g), place),
      stateId |-> id] :
        g \in GeoPoints \cup {Arr(<<>>)}, place \in Places, id \in {Str("A"), Str("C")}}
    \cup {[fn |-> "getViewStateForState", geojson |-> c, stateId |-> Str("A")] :
            c \in CollectionsWithout}
    \cup {[fn |-> "getDefaultViewState"]}

\* the calls made after an earlier call of this module has returned
FollowingCalls ==
    {[fn |-> "calculateViewStateForBounds", bounds |-> Null],
     [fn |-> "getDefaultViewState"]}
    \cup {[fn |-> "getViewStateForState", geojson |-> c, stateId |-> Str("A")] :
            c \in CollectionsWithout}

ViewCalls ==
    {[fn |-> "calculateViewStateForBounds", bounds |-> b] : b \in Boxes \cup {Null}}

(***************************************************************************)
(* utils/colorScale.js                                                     *)
(***************************************************************************)
\* COLOR_SCALES.blue, light to dark
COLOR_SCALES_blue ==
    Arr(<<Str("#eff6ff"), Str("#dbeafe"), Str("#bfdbfe"), Str("#93c5fd"),
          Str("#60a5fa"), Str("#3b82f6"), Str("#2563eb"), Str("#1d4ed8"),
          Str("#1e40af")>>)

\* the colour returned for a missing value (gray-200)
NoDataColor == Str("#e5e7eb")

\* getColor with the scaling factor colorScale.length in place of length - 1
getColor_scaleByLength(value, min, max, colorScaleArg) ==
    LET colorScale ==
            IF colorScaleArg = Undefined THEN COLOR_SCALES_blue ELSE colorScaleArg
    IN  IF LooseEqNull(value) \/ isNaN(value) THEN NoDataColor
        ELSE IF JsStrictEq(min, max)
        THEN At(colorScale, MathFloor(JsDiv(Length(colorScale), JsNum(2, 1))))
        ELSE
            LET normalized == JsDiv(JsSub(value, min), JsSub(max, min))
                index == MathFloor(JsMul(normalized, Length(colorScale)))
                clampedIndex ==
                    MathMax(JsNum(0, 1),
                            MathMin(JsSub(Length(colorScale), JsNum(1, 1)), index))
            IN  At(colorScale, clampedIndex)

\* getColor normalizing with (min - value) in place of (value - min)
getColor_swappedOperands(value, min, max, colorScaleArg) ==
    LET colorScale ==
            IF colorScaleArg = Undefined THEN COLOR_SCALES_blue ELSE colorScaleArg
    IN  IF LooseEqNull(value) \/ isNaN(value) THEN NoDataColor
        ELSE IF JsStrictEq(min, max)
        THEN At(colorScale, MathFloor(JsDiv(Length(colorScale), JsNum(2, 1))))
        ELSE
            LET normalized == JsDiv(JsSub(min, value), JsSub(max, min))
                index ==
                    MathFloor(JsMul(normalized, JsSub(Length(colorScale), JsNum(1, 1))))
                clampedIndex ==
                    MathMax(JsNum(0, 1),
                            MathMin(JsSub(Length(colorScale), JsNum(1, 1)), index))
            IN  At(colorScale, clampedIndex)

\* getColor testing min === max before testing for a missing value
getColor_rangeCheckedFirst(value, min, max, colorScaleArg) ==
    LET colorScale ==
            IF colorScaleArg = Undefined THEN COLOR_SCALES_blue ELSE colorScaleArg
    IN  IF JsStrictEq(min, max)
        THEN At(colorScale, MathFloor(JsDiv(Length(colorScale), JsNum(2, 1))))
        ELSE IF LooseEqNull(value) \/ isNaN(value) THEN NoDataColor
        ELSE
            LET normalized == JsDiv(JsSub(value, min), JsSub(max, min))
                index ==
                    MathFloor(JsMul(normalized, JsSub(Length(colorScale), JsNum(1, 1))))
                clampedIndex ==
                    MathMax(JsNum(0, 1),
                            MathMin(JsSub(Length(colorScale), JsNum(1, 1)), index))
            IN  At(colorScale, clampedIndex)

\* getColor taking the middle colour at floor((length - 1) / 2)
getColor_middleOfLastIndex(value, min, max, colorScaleArg) ==
    LET colorScale ==
            IF colorScaleArg = Undefined THEN COLOR_SCALES_blue ELSE colorScaleArg
    IN  IF LooseEqNull(value) \/ isNaN(value) THEN NoDataColor
        ELSE IF JsStrictEq(min, max)
        THEN At(colorScale,
                MathFloor(JsDiv(JsSub(Length(colorScale), JsNum(1, 1)), JsNum(2, 1))))
        ELSE
            LET normalized == JsDiv(JsSub(value, min), JsSub(max, min))
                index ==
                    MathFloor(JsMul(normalized, JsSub(Length(colorScale), JsNum(1, 1))))
                clampedIndex ==
                    MathMax(JsNum(0, 1),
                            MathMin(JsSub(Length(colorScale), JsNum(1, 1)), index))
            IN  At(colorScale, clampedIndex)

getColor(value, min, max, colorScaleArg) ==
    LET colorScale ==
            IF colorScaleArg = Undefined THEN COLOR_SCALES_blue ELSE colorScaleArg
    IN  IF LooseEqNull(value) \/ isNaN(value) THEN NoDataColor
        ELSE IF JsStrictEq(min, max)
        THEN At(colorScale, MathFloor(JsDiv(Length(colorScale), JsNum(2, 1))))
        ELSE
            LET normalized == JsDiv(JsSub(value, min), JsSub(max, min))
                index ==
                    MathFloor(JsMul(normalized, JsSub(Length(colorScale), JsNum(1, 1))))
                clampedIndex ==
                    MathMax(JsNum(0, 1),
                            MathMin(JsSub(Length(colorScale), JsNum(1, 1)), index))
            IN  At(colorScale, clampedIndex)

\* the filter without the isNaN test
ValidValues_nullOnly(data) == SelectSeq(data, LAMBDA v : ~LooseEqNull(v))

\* Object.values(data).filter(v => v != null && !isNaN(v))
ValidValues(data) == SelectSeq(data, LAMBDA v : ~LooseEqNull(v) /\ ~isNaN(v))

\* Math.min(...values) and Math.max(...values); of no argument they are
\* Infinity and -Infinity
RECURSIVE MathMinOf(_)
MathMinOf(values) ==
    IF values = <<>> THEN PosInf
    ELSE MathMin(ToNumber(Head(values)), MathMinOf(Tail(values)))

RECURSIVE MathMaxOf(_)
MathMaxOf(values) ==
    IF values = <<>> THEN NegInf
    ELSE MathMax(ToNumber(Head(values)), MathMaxOf(Tail(values)))

\* getDataRange without the guard for an empty list of values
getDataRange_noEmptyGuard(data) ==
    LET values == ValidValues(data)
    IN  [min |-> MathMinOf(values), max |-> MathMaxOf(values)]

getDataRange(data) ==
    LET values == ValidValues(data)
    IN  IF Len(values) = 0 THEN [min |-> JsNum(0, 1), max |-> JsNum(0, 1)]
        ELSE [min |-> MathMinOf(values), max |-> MathMaxOf(values)]

\* intervalMax lowered by one, so that integer intervals do not share an end
LegendIntervalMax_exclusive(min, step, i) ==
    JsSub(JsAdd(min, JsMul(step, JsAdd(i, JsNum(1, 1)))), JsNum(1, 1))

\* intervalMin of interval i: min + (step * i)
LegendIntervalMin(min, step, i) == JsAdd(min, JsMul(step, i))

\* intervalMax of interval i: min + (step * (i + 1))
LegendIntervalMax(min, step, i) == JsAdd(min, JsMul(step, JsAdd(i, JsNum(1, 1))))

\* the step taken as range / (steps + 1)
LegendStep_oneMore(range, steps) == JsDiv(range, JsAdd(steps, JsNum(1, 1)))

\* step = range / steps
LegendStep(range, steps) == JsDiv(range, steps)

\* the colour index with i / steps in place of i / (steps - 1)
LegendColorIndex_overSteps(i, steps, colorScale) ==
    MathFloor(JsMul(JsDiv(i, steps), JsSub(Length(colorScale), JsNum(1, 1))))

\* colorIndex = Math.floor((i / (steps - 1)) * (colorScale.length - 1))
LegendColorIndex(i, steps, colorScale) ==
    MathFloor(JsMul(JsDiv(i, JsSub(steps, JsNum(1, 1))),
                    JsSub(Length(colorScale), JsNum(1, 1))))

generateLegend(min, max, stepsArg, colorScaleArg) ==
    LET steps == IF stepsArg = Undefined THEN JsNum(5, 1) ELSE stepsArg
        colorScale ==
            IF colorScaleArg = Undefined THEN COLOR_SCALES_blue ELSE colorScaleArg
        range == JsSub(max, min)
        step == LegendStep(range, steps)
        \* the loop runs for i = 0 .. steps - 1 (steps is a whole number >= 1)
        interval(k) ==
            LET i == JsNum(k - 1, 1)
                intervalMin == LegendIntervalMin(min, step, i)
                intervalMax == LegendIntervalMax(min, step, i)
                colorIndex == LegendColorIndex(i, steps, colorScale)
            IN  [min |-> MathRound(intervalMin),
                 max |-> MathRound(intervalMax),
                 color |-> JsOr(At(colorScale, colorIndex),
                                At(colorScale, JsSub(Length(colorScale), JsNum(1, 1))))]
    IN  Arr([k \in 1..steps.n |-> interval(k)])

\* the decimal digit k as a string
DigitChar(k) == <<"0", "1", "2", "3", "4", "5", "6", "7", "8", "9">>[k + 1]

\* the decimal digits of a natural number
RECURSIVE Digits(_)
Digits(n) == IF n < 10 THEN DigitChar(n) ELSE Digits(n \div 10) \o DigitChar(n % 10)

\* the last w decimal digits of a natural number, zero-padded
RECURSIVE PadDigits(_, _)
PadDigits(n, w) ==
    IF w = 0 THEN "" ELSE PadDigits(n \div 10, w - 1) \o DigitChar(n % 10)

\* en-US grouping of the integer digits: a comma every three digits
RECURSIVE Grouped(_)
Grouped(n) ==
    IF n < 1000 THEN Digits(n)
    ELSE Grouped(n \div 1000) \o "," \o PadDigits(n % 1000, 3)

RECURSIVE Pow10(_)
Pow10(k) == IF k = 0 THEN 1 ELSE 10 * Pow10(k - 1)

\* the integer nearest to |x| * 10^digits, a tie going away from zero
RoundedMagnitude(x, digits) ==
    LET whole == Abs(x.n) \div x.d
        rest == Abs(x.n) % x.d
    IN  whole * Pow10(digits) + ((2 * rest * Pow10(digits) + x.d) \div (2 * x.d))

\* w fraction digits of f with the trailing zeros beyond minFrac digits removed
RECURSIVE FractionDigits(_, _, _)
FractionDigits(f, w, minFrac) ==
    IF w > minFrac /\ f % 10 = 0 THEN FractionDigits(f \div 10, w - 1, minFrac)
    ELSE PadDigits(f, w)

\* the one-character string of the infinity sign, U+221E
InfinitySign == "[U+221E]"

\* new Intl.NumberFormat('en-US', {style, minimumFractionDigits,
\* maximumFractionDigits}).format(x): style 'currency' (USD) or 'decimal'
IntlNumberFormat(x, isCurrency, minFrac, maxFrac) ==
    LET symbol == IF isCurrency THEN "$" ELSE ""
    IN  CASE x.t = "nan" -> symbol \o "NaN"
          [] x.t = "inf" -> (IF x.n < 0 THEN "-" ELSE "") \o symbol \o InfinitySign
          [] OTHER ->
                LET m == RoundedMagnitude(x, maxFrac)
                    whole == m \div Pow10(maxFrac)
                    fraction == FractionDigits(m % Pow10(maxFrac), maxFrac, minFrac)
                IN  (IF x.n < 0 THEN "-" ELSE "") \o symbol \o Grouped(whole)
                        \o (IF fraction = "" THEN "" ELSE "." \o fraction)

\* x.toFixed(digits)
toFixed(x, digits) ==
    CASE x.t = "nan" -> "NaN"
      [] x.t = "inf" -> IF x.n < 0 THEN "-Infinity" ELSE "Infinity"
      [] OTHER ->
            LET m == RoundedMagnitude(x, digits)
            IN  (IF x.n < 0 THEN "-" ELSE "") \o Digits(m \div Pow10(digits))
                    \o "." \o PadDigits(m % Pow10(digits), digits)

\* the missing-value test of formatNumber without the isNaN test
FormatIsMissing_nullOnly(value) == LooseEqNull(value)

\* value == null || isNaN(value)
FormatIsMissing(value) == LooseEqNull(value) \/ isNaN(value)

\* the currency format with the default two fraction digits of USD
CurrencyFormat_defaultDigits(value) == IntlNumberFormat(value, TRUE, 2, 2)

\* the 'currency' branch: USD with minimumFractionDigits 0, maximumFractionDigits 0
CurrencyFormat(value) == IntlNumberFormat(value, TRUE, 0, 0)

formatNumber(value, typeArg) ==
    LET type == IF typeArg = Undefined THEN Str("number") ELSE typeArg
    IN  IF FormatIsMissing(value) THEN Str("N/A")
        ELSE CASE type = Str("percent") ->
                      Str(toFixed(JsMul(value, JsNum(100, 1)), 1) \o "%")
               [] type = Str("currency") -> Str(CurrencyFormat(value))
               [] OTHER -> Str(IntlNumberFormat(value, FALSE, 0, 3))

(***************************************************************************)
(* The calls of colorScale.js the model makes.                             *)
(***************************************************************************)
\* the values that are missing data
Missing == {Null, Undefined, NaN}

\* a value to colour: a finite number from below to above every range, an
\* infinity, or a missing value
ColorValues ==
    {JsNum(k, 1) : k \in -1..(MaxVal + 1)} \cup {PosInf, NegInf} \cup Missing

\* the ends of a range: finite, min <= max
RangeEnds == {JsNum(k, 1) : k \in 0..MaxVal}

\* the palettes: the leading colours of the blue scale, and none (the default)
Palettes ==
    {Arr(SubSeq(COLOR_SCALES_blue.a, 1, l)) : l \in 1..Len(COLOR_SCALES_blue.a)}
    \cup {Undefined}

\* getColor(50, 0, 100, COLOR_SCALES.blue), the documented example
MiddleExample ==
    [fn |-> "getColor", value |-> JsNum(50, 1), min |-> JsNum(0, 1),
     max |-> JsNum(100, 1), colorScale |-> COLOR_SCALES_blue]

ColorCalls ==
    {[fn |-> "getColor", value |-> v, min |-> r[1], max |-> r[2], colorScale |-> p] :
        v \in ColorValues,
        r \in {q \in RangeEnds \X RangeEnds : JsLe(q[1], q[2])},
        p \in Palettes}
    \cup {MiddleExample}

\* an entry of a value map: a finite number, an infinity, or a missing value
EntryValues ==
    {JsNum(k, 1) : k \in -1..MaxVal} \cup {PosInf, NegInf} \cup Missing

RECURSIVE SeqsUpTo(_, _)
SeqsUpTo(S, n) ==
    IF n = 0 THEN {<<>>}
    ELSE LET shorter == SeqsUpTo(S, n - 1)
         IN  shorter \cup {Append(q, x) : q \in shorter, x \in S}

\* Object.values of the value maps: at most MaxEntries entries
RangeCalls ==
    {[fn |-> "getDataRange", data |-> d] : d \in SeqsUpTo(EntryValues, MaxEntries)}

\* the ends of a legend's range: half units, min <= max
LegendEnds == {JsNum(k, 2) : k \in -2..(2 * MaxVal)}

\* the step counts: 1 .. MaxSteps, and none (the default, 5)
StepCounts == {JsNum(k, 1) : k \in 1..MaxSteps} \cup {Undefined}

LegendCalls ==
    {[fn |-> "generateLegend", min |-> r[1], max |-> r[2], steps |-> n,
      colorScale |-> p] :
        r \in {q \in LegendEnds \X LegendEnds : JsLe(q[1], q[2])},
        n \in StepCounts,
        p \in Palettes}

\* the values to format: half units, the documented examples (1234567,
\* 1234.56, 0.856, 0.045), the infinities and the missing values
FormatValues ==
    {JsNum(k, 2) : k \in -3..(2 * MaxVal)}
    \cup {JsNum(1234567, 1), JsNum(123456, 100), JsNum(-123456, 100),
          JsNum(856, 1000), JsNum(45, 1000)}
    \cup {PosInf, NegInf} \cup Missing

\* the unit kinds: the three known ones, none, and an unrecognised one
UnitKinds ==
    {Str("number"), Str("percent"), Str("currency"), Undefined, Str("index")}

FormatCalls ==
    {[fn |-> "formatNumber", value |-> v, type |-> k] :
        v \in FormatValues, k \in UnitKinds}

(***************************************************************************)
(* The state machine: a caller picks a call, the module answers it.        *)
(***************************************************************************)
(***************************************************************************)
(* IEEE 754 double arithmetic, for the places where rounding decides the   *)
(* result. A double is a sign and a magnitude; the magnitude is an exact   *)
(* multiple of 2^-60 held in five limbs of 15 bits, most significant (the  *)
(* integer part) first. Every operation computes the exact result and      *)
(* rounds it to 53 significant bits, to nearest, ties to even. The         *)
(* magnitudes that are rounded here are 0 or at least 2^-6, so the 53      *)
(* bits and the rounding bit lie within the 60 fraction bits.              *)
(***************************************************************************)
LimbBase == 32768

SignificandBits == 53

\* the number of bits of x >= 0
BitLength(x) == CHOOSE n \in 0..31 : (n = 0 \/ 2^(n - 1) <= x) /\ (n = 31 \/ x < 2^n)

\* the magnitude k / 2 for a whole number k >= 0
MagOfHalves(k) == <<k \div 2, (k % 2) * (LimbBase \div 2), 0, 0, 0>>

\* m * k for a whole number k >= 0, exactly
MagMulSmall(m, k) ==
    LET p5 == m[5] * k
        p4 == m[4] * k + p5 \div LimbBase
        p3 == m[3] * k + p4 \div LimbBase
        p2 == m[2] * k + p3 \div LimbBase
        p1 == m[1] * k + p2 \div LimbBase
    IN  <<p1, p2 % LimbBase, p3 % LimbBase, p4 % LimbBase, p5 % LimbBase>>

\* m / k for a whole number k > 0: the quotient cut at 2^-60, and whether
\* anything was cut off
MagDivSmall(m, k) ==
    LET c2 == (m[1] % k) * LimbBase + m[2]
        c3 == (c2 % k) * LimbBase + m[3]
        c4 == (c3 % k) * LimbBase + m[4]
        c5 == (c4 % k) * LimbBase + m[5]
    IN  [q |-> <<m[1] \div k, c2 \div k, c3 \div k, c4 \div k, c5 \div k>>,
         inexact |-> (c5 % k) # 0]

MagAdd(a, b) ==
    LET s5 == a[5] + b[5]
        s4 == a[4] + b[4] + s5 \div LimbBase
        s3 == a[3] + b[3] + s4 \div LimbBase
        s2 == a[2] + b[2] + s3 \div LimbBase
        s1 == a[1] + b[1] + s2 \div LimbBase
    IN  <<s1, s2 % LimbBase, s3 % LimbBase, s4 % LimbBase, s5 % LimbBase>>

\* a - b for a >= b
MagSub(a, b) ==
    LET d5 == a[5] - b[5]
        d4 == a[4] - b[4] + d5 \div LimbBase
        d3 == a[3] - b[3] + d4 \div LimbBase
        d2 == a[2] - b[2] + d3 \div LimbBase
        d1 == a[1] - b[1] + d2 \div LimbBase
    IN  <<d1, d2 % LimbBase, d3 % LimbBase, d4 % LimbBase, d5 % LimbBase>>

MagLess(a, b) ==
    \E i \in 1..5 : a[i] < b[i] /\ \A j \in 1..(i - 1) : a[j] = b[j]

MagZero == <<0, 0, 0, 0, 0>>

\* the exact magnitude m (plus a little more when inexact) rounded to
\* SignificandBits bits, to nearest, ties to even
RoundMagnitude(m, inexact) ==
    IF m = MagZero THEN m
    ELSE
        LET top == CHOOSE i \in 1..5 : m[i] # 0 /\ \A j \in 1..(i - 1) : m[j] = 0
            drop == 15 * (5 - top) + BitLength(m[top]) - SignificandBits
        IN  IF drop <= 0 THEN m
            ELSE
                LET low == m[4] * LimbBase + m[5]
                    kept == low \div 2^drop
                    rest == low % 2^drop
                    half == 2^(drop - 1)
                    up == IF rest > half \/ (rest = half /\ (inexact \/ kept % 2 = 1))
                          THEN 1 ELSE 0
                    newLow == (kept + up) * 2^drop
                    r5 == newLow % LimbBase
                    r4 == newLow \div LimbBase
                    r3 == m[3] + r4 \div LimbBase
                    r2 == m[2] + r3 \div LimbBase
                    r1 == m[1] + r2 \div LimbBase
                IN  <<r1, r2 % LimbBase, r3 % LimbBase, r4 % LimbBase, r5>>

Double(neg, m) == [t |-> "double", neg |-> neg /\ m # MagZero, m |-> m]

\* the double of a number of half units (exact)
DoubleOf(x) == Double(x.n < 0, MagOfHalves((2 * Abs(x.n)) \div x.d))

\* a / b for whole numbers a >= 0 and b > 0
DoubleRatio(a, b) ==
    LET d == MagDivSmall(<<a, 0, 0, 0, 0>>, b)
    IN  Double(FALSE, RoundMagnitude(d.q, d.inexact))

DoubleAdd(x, y) ==
    IF x.neg = y.neg THEN Double(x.neg, RoundMagnitude(MagAdd(x.m, y.m), FALSE))
    ELSE IF MagLess(x.m, y.m) THEN Double(y.neg, RoundMagnitude(MagSub(y.m, x.m), FALSE))
    ELSE Double(x.neg, RoundMagnitude(MagSub(x.m, y.m), FALSE))

DoubleSub(x, y) == DoubleAdd(x, Double(~y.neg, y.m))

\* x * k for a whole number k >= 0
DoubleTimes(x, k) == Double(x.neg, RoundMagnitude(MagMulSmall(x.m, k), FALSE))

\* x * (k / 2) for a whole number k >= 0
DoubleTimesHalves(x, k) ==
    LET d == MagDivSmall(MagMulSmall(x.m, k), 2)
    IN  Double(x.neg, RoundMagnitude(d.q, d.inexact))

\* x / (k / 2) for a whole number k > 0
DoubleOverHalves(x, k) ==
    LET d == MagDivSmall(MagMulSmall(x.m, 2), k)
    IN  Double(x.neg, RoundMagnitude(d.q, d.inexact))

DoubleLe(x, y) ==
    IF x.neg /\ ~y.neg THEN TRUE
    ELSE IF ~x.neg /\ y.neg THEN FALSE
    ELSE IF x.neg THEN ~MagLess(x.m, y.m)
    ELSE ~MagLess(y.m, x.m)

\* Math.floor(x) as a whole number
DoubleFloor(x) ==
    IF ~x.neg THEN x.m[1]
    ELSE IF SubSeq(x.m, 2, 5) = <<0, 0, 0, 0>> THEN -x.m[1]
    ELSE -x.m[1] - 1

\* getColor for a double value and a range whose ends are half units with
\* min < max: the index is rounded at every operation
getColorOfDouble(value, min, max, colorScale) ==
    LET span == (2 * (max.n * min.d - min.n * max.d)) \div (min.d * max.d)
        normalized == DoubleOverHalves(DoubleSub(value, DoubleOf(min)), span)
        index == DoubleFloor(DoubleTimes(normalized, Len(colorScale.a) - 1))
        clampedIndex ==
            IF index < 0 THEN 0
            ELSE IF index > Len(colorScale.a) - 1 THEN Len(colorScale.a) - 1
            ELSE index
    IN  At(colorScale, JsNum(clampedIndex, 1))

\* colorIndex of generateLegend, rounded at every operation
LegendColorIndexOfDouble(i, steps, colorScale) ==
    DoubleFloor(DoubleTimes(DoubleRatio(i, steps - 1), Len(colorScale.a) - 1))

\* intervalMin (and, for i + 1, intervalMax) of generateLegend for a range
\* whose ends are half units, rounded at every operation
LegendBoundOfDouble(min, max, steps, i) ==
    LET span == (2 * (max.n * min.d - min.n * max.d)) \div (min.d * max.d)
        step == DoubleRatio(span, 2 * steps)
    IN  DoubleAdd(DoubleOf(min), DoubleTimes(step, i))

(***************************************************************************)
(* utils/mapHelpers.js                                                     *)
(***************************************************************************)
isValidGeoJSON(geojson) ==
    IF Falsy(geojson) \/ geojson.t # "object" THEN FALSE
    ELSE IF geojson.type # Str("FeatureCollection") /\ geojson.type # Str("Feature")
    THEN FALSE
    ELSE IF geojson.type = Str("FeatureCollection") /\ geojson.features.t # "array"
    THEN FALSE
    ELSE TRUE

\* properties[name] for the properties the features carry
PropertyOf(properties, name) ==
    IF name = Str("id") THEN properties.id
    ELSE IF name = Str("code") THEN properties.code
    ELSE IF name = Str("value") THEN properties.value
    ELSE Undefined

\* data[key]: undefined for a key the object does not have
EntryOf(data, key) ==
    IF key.t = "str" /\ key.s \in DOMAIN data.entries THEN data.entries[key.s]
    ELSE Undefined

\* the value a feature is given: data[feature.properties[idProperty]] || null
MergedValue(feature, data, idProperty) ==
    JsOr(EntryOf(data, PropertyOf(feature.properties, idProperty)), Null)

mergeGeoJSONWithData(geojson, data, idPropertyArg) ==
    LET idProperty == IF idPropertyArg = Undefined THEN Str("id") ELSE idPropertyArg
    IN  IF ~isValidGeoJSON(geojson) \/ Falsy(data) THEN geojson
        ELSE IF LooseEqNull(geojson.features) THEN TypeError
        ELSE [geojson EXCEPT !.features =
                Arr([i \in 1..Len(geojson.features.a) |->
                       LET feature == geojson.features.a[i]
                       IN  [feature EXCEPT !.properties =
                              [feature.properties EXCEPT !.value =
                                 MergedValue(feature, data, idProperty)]]])]

\* a feature of a collection to merge: no value yet
RegionFeature(id, code) ==
    [t |-> "object",
     properties |-> [t |-> "object", id |-> Str(id), code |-> Str(code), value |-> Undefined],
     geometry |-> Null]

RegionIds == {"A", "B"}

\* collections of at most two features, and objects that are no collection
MergeCollections ==
    {[t |-> "object", type |-> Str("FeatureCollection"), features |-> Arr(fs)] :
        fs \in SeqsUpTo({RegionFeature(id, code) : id \in RegionIds, code \in RegionIds}, 2)}
    \cup {Null,
          [t |-> "object", type |-> Str("FeatureCollection"), features |-> Undefined],
          [t |-> "object", type |-> Str("Feature"), features |-> Undefined],
          [t |-> "object", type |-> Str("Topology"), features |-> Arr(<<>>)]}

\* an entry of the data: absent, null, 0 or another number
MergeEntries == {Undefined, Null, JsNum(0, 1), JsNum(MaxVal, 1)}

\* the data objects, keyed by region id, and no data
MergeData ==
    {[t |-> "object", entries |-> d] : d \in [RegionIds -> MergeEntries]}
    \cup {Null, Undefined}

MergeCalls ==
    {[fn |-> "mergeGeoJSONWithData", geojson |-> g, data |-> d, idProperty |-> p] :
        g \in MergeCollections, d \in MergeData,
        p \in {Undefined, Str("id"), Str("code")}}

(***************************************************************************)
(* components/InfoPanel.jsx                                                *)
(***************************************************************************)
\* values.reduce((a, b) => a + b, 0)
RECURSIVE SumOf(_)
SumOf(values) ==
    IF values = <<>> THEN JsNum(0, 1)
    ELSE JsAdd(SumOf(SubSeq(values, 1, Len(values) - 1)), values[Len(values)])

\* v placed in the ascending sequence sorted, after the values equal to it
RECURSIVE InsertAscending(_, _)
InsertAscending(sorted, v) ==
    IF sorted = <<>> THEN <<v>>
    ELSE IF JsLt(v, Head(sorted)) THEN <<v>> \o sorted
    ELSE <<Head(sorted)>> \o InsertAscending(Tail(sorted), v)

\* [...values].sort((a, b) => a - b)
RECURSIVE SortAscending(_)
SortAscending(values) ==
    IF values = <<>> THEN <<>>
    ELSE InsertAscending(SortAscending(SubSeq(values, 1, Len(values) - 1)),
                         values[Len(values)])

\* sorted.indexOf(value): the first position (from 0) strictly equal to
\* value, or -1
IndexOf(sorted, value) ==
    LET found == {i \in 1..Len(sorted) : sorted[i].t = value.t /\ JsStrictEq(sorted[i], value)}
    IN  IF found = {} THEN -1
        ELSE (CHOOSE i \in found : \A j \in found : i <= j) - 1

\* getStats of the panel, for the values of dataset.data and the value of
\* the selected region; null when the dataset has no data
getStats(hasData, data, value) ==
    IF ~hasData THEN Null
    ELSE
        LET range == getDataRange(data)
            values == ValidValues(data)
            average == JsDiv(SumOf(values), JsNum(Len(values), 1))
            sorted == SortAscending(values)
            rank == JsNum(IndexOf(sorted, value) + 1, 1)
            percentile ==
                JsMul(JsDiv(JsSub(ToNumber(value), range.min),
                            JsSub(range.max, range.min)),
                      JsNum(100, 1))
        IN  [min |-> range.min, max |-> range.max, average |-> average,
             rank |-> rank, total |-> JsNum(Len(values), 1),
             percentile |-> percentile]

\* the ranking shown: stats.total - stats.rank + 1
DisplayedRank(stats) == JsAdd(JsSub(stats.total, stats.rank), JsNum(1, 1))

\* the percentile shown: Math.round(stats.percentile)
DisplayedPercentile(stats) == MathRound(stats.percentile)

\* an entry of dataset.data: a number, null or NaN
StatsEntries == {JsNum(k, 1) : k \in 0..MaxVal} \cup {Null, NaN}

\* selectedRegion.value is activeDataset.data[selectedRegionId]: the entry
\* at a position of the data, or undefined for an id the data does not hold
\* (position 0)
SelectedValue(data, selected) ==
    IF selected = 0 THEN Undefined ELSE data[selected]

\* the panel with a dataset of at most MaxEntries entries and a selected
\* region, and with a dataset that has no data
StatsCalls ==
    {c \in {[fn |-> "getStats", hasData |-> TRUE, data |-> d, selected |-> i] :
                d \in SeqsUpTo(StatsEntries, MaxEntries), i \in 0..MaxEntries} :
        c.selected <= Len(c.data)}
    \cup {[fn |-> "getStats", hasData |-> FALSE, data |-> <<>>, selected |-> 0]}

(***************************************************************************)
(* utils/dataLoader.js                                                     *)
(*                                                                         *)
(* An async loader runs up to its await when it is called (it returns a    *)
(* cached value, or issues the fetch) and resumes in a later step, when    *)
(* the fetch has completed; other calls and clearCache run in between.     *)
(***************************************************************************)
\* the storage files: data/mexico-<file>.json (geojson: mexico-states.geo.json)
Files == {"datasets", "cities", "geojson", "airports"}

\* const cache = { ... null }
EmptyCache ==
    [datasets |-> Null, cities |-> Null, geojson |-> Null,
     stateNames |-> Null, airports |-> Null, flights |-> Null]

\* the member `part` of the JSON a fetch issued in epoch e resolved to
Fetched(part, e) == [t |-> "object", of |-> part, fetchedIn |-> e]

\* the test at the top of the loader of file f
CacheHit(f, c) ==
    IF f = "airports" THEN ~Falsy(c.airports) /\ ~Falsy(c.flights)
    ELSE ~Falsy(c[f])

\* what the loader of file f returns from the cache
CachedResult(f, c) ==
    IF f = "airports"
    THEN [t |-> "object", airports |-> c.airports, flights |-> c.flights,
          airportTypeColors |-> Undefined, airportTypeLabels |-> Undefined]
    ELSE c[f]

\* what the loader of file f returns after its fetch, issued in epoch e
FetchedResult(f, e) ==
    IF f = "airports"
    THEN [t |-> "object", airports |-> Fetched("airports", e),
          flights |-> Fetched("flights", e),
          airportTypeColors |-> Fetched("airportTypeColors", e),
          airportTypeLabels |-> Fetched("airportTypeLabels", e)]
    ELSE Fetched(f, e)

\* the assignments to the cache after the fetch of file f, issued in epoch e
CacheAfterFetch(f, c, e) ==
    CASE f = "datasets" ->
            [c EXCEPT !.datasets = Fetched("datasets", e),
                      !.stateNames = Fetched("stateNames", e)]
      [] f = "cities" -> [c EXCEPT !.cities = Fetched("cities", e)]
      [] f = "geojson" -> [c EXCEPT !.geojson = Fetched("geojson", e)]
      [] f = "airports" ->
            [c EXCEPT !.airports = Fetched("airports", e),
                      !.flights = Fetched("flights", e)]

\* a loader that was not called by a call
NotCalled ==
    [st |-> "none", val |-> Null, afterCompleted |-> FALSE, afterClear |-> FALSE]

\* the loader of file f up to its await: "hit" with the cached value, or
\* "fetching"; afterCompleted and afterClear record whether a load of f had
\* completed since the last clearCache, and whether this is the first call
\* of the loader since a clearCache
LoaderCalled(f) ==
    [st |-> IF CacheHit(f, cache) THEN "hit" ELSE "fetching",
     val |-> IF CacheHit(f, cache) THEN CachedResult(f, cache) ELSE Null,
     afterCompleted |-> loaded[f].completed,
     afterClear |-> loaded[f].cleared]

\* the record of file f after its loader was called
LoadedAfterCall(f) ==
    [completed |-> loaded[f].completed \/ CacheHit(f, cache),
     cleared |-> FALSE,
     fetches |-> loaded[f].fetches + (IF CacheHit(f, cache) THEN 0 ELSE 1)]

\* loadDatasets(), loadCities(), loadGeoJSON() or loadAirports() is called
CallLoader(f) ==
    /\ Len(calls) < MaxCalls
    /\ calls' = Append(calls,
          [fn |-> f, epoch |-> epoch,
           parts |-> [g \in Files |-> IF g = f THEN LoaderCalled(f) ELSE NotCalled],
           state |-> IF CacheHit(f, cache) THEN "resolved" ELSE "pending",
           result |-> IF CacheHit(f, cache) THEN CachedResult(f, cache) ELSE Null])
    /\ loaded' = [loaded EXCEPT ![f] = LoadedAfterCall(f)]
    /\ UNCHANGED <<cache, epoch>>

\* loadAllData() is called: Promise.all calls the four loaders
CallLoadAllData ==
    /\ Len(calls) < MaxCalls
    /\ calls' = Append(calls,
          [fn |-> "all", epoch |-> epoch,
           parts |-> [g \in Files |-> LoaderCalled(g)],
           state |-> "pending",
           result |-> Null])
    /\ loaded' = [g \in Files |-> LoadedAfterCall(g)]
    /\ UNCHANGED <<cache, epoch>>

\* the fetch of file f of call i has completed and its loader resumes: it
\* fills the cache and returns
FetchCompletes(i, f) ==
    /\ calls[i].parts[f].st = "fetching"
    /\ cache' = CacheAfterFetch(f, cache, calls[i].epoch)
    /\ calls' = [calls EXCEPT
          ![i].parts[f].st = "done",
          ![i].parts[f].val = FetchedResult(f, calls[i].epoch),
          ![i].state = IF calls[i].fn = f THEN "resolved" ELSE @,
          ![i].result = IF calls[i].fn = f THEN FetchedResult(f, calls[i].epoch) ELSE @]
    /\ loaded' = [loaded EXCEPT ![f].completed = TRUE]
    /\ UNCHANGED epoch

\* the fetch of file f of call i has failed: fetchFromStorage throws, and
\* the call (for loadAllData, its Promise.all) is rejected
FetchFails(i, f) ==
    /\ calls[i].parts[f].st = "fetching"
    /\ calls' = [calls EXCEPT ![i].parts[f].st = "failed", ![i].state = "rejected"]
    /\ loaded' = [loaded EXCEPT ![f].fetches =
                      IF calls[i].epoch = epoch THEN @ - 1 ELSE @]
    /\ UNCHANGED <<cache, epoch>>

\* loadAllData resumes after Promise.all and returns
LoadAllDataReturns(i) ==
    /\ calls[i].fn = "all"
    /\ calls[i].state = "pending"
    /\ \A f \in Files : calls[i].parts[f].st \in {"hit", "done"}
    /\ calls' = [calls EXCEPT
          ![i].state = "resolved",
          ![i].result =
              [t |-> "object",
               datasets |-> calls[i].parts["datasets"].val,
               cities |-> calls[i].parts["cities"].val,
               geojson |-> calls[i].parts["geojson"].val,
               airports |-> calls[i].parts["airports"].val.airports,
               flights |-> calls[i].parts["airports"].val.flights,
               airportTypeColors |-> calls[i].parts["airports"].val.airportTypeColors,
               airportTypeLabels |-> calls[i].parts["airports"].val.airportTypeLabels,
               stateNames |-> cache.stateNames]]
    /\ UNCHANGED <<cache, epoch, loaded>>

NothingLoaded == [completed |-> FALSE, cleared |-> FALSE, fetches |-> 0]

ClearCache ==
    /\ epoch < MaxClears
    /\ cache' = EmptyCache
    /\ epoch' = epoch + 1
    /\ loaded' = [f \in Files |-> [completed |-> FALSE, cleared |-> TRUE, fetches |-> 0]]
    /\ UNCHANGED calls

\* the module as imported: nothing cached, nothing called
LoaderStart ==
    /\ cache = EmptyCache
    /\ calls = <<>>
    /\ epoch = 0
    /\ loaded = [f \in Files |-> NothingLoaded]

(***************************************************************************)
(* utils/darkMode.js                                                       *)
(***************************************************************************)
\* setTheme(isDark): the class 'dark' is on the document afterwards iff isDark
setTheme(isDark) == isDark

\* the class after initTheme()
ClassAfterInit(stored, prefers) ==
    IF ~Falsy(stored) THEN setTheme(stored = Str("dark"))
    ELSE IF prefers THEN setTheme(TRUE)
    ELSE setTheme(FALSE)

\* the theme stored as the document was before the toggle
StoredAfterToggle_asBefore(isDark) == IF isDark THEN Str("dark") ELSE Str("light")

\* localStorage.setItem('theme', !isDark ? 'dark' : 'light')
StoredAfterToggle(isDark) == IF ~isDark THEN Str("dark") ELSE Str("light")

\* the log after the call named op
Logged(op) ==
    [toggles |-> themeLog.toggles + (IF op = "toggleTheme" THEN 1 ELSE 0),
     last |-> op, before |-> darkClass,
     previous |-> themeLog.last, beforePrevious |-> themeLog.before]

\* initTheme(), run when the page is loaded (main.jsx) on a document whose
\* class it sets either way
InitTheme ==
    /\ darkClass' = ClassAfterInit(storedTheme, prefersDark)
    /\ themeLog' = Logged("initTheme")
    /\ UNCHANGED <<storedTheme, prefersDark>>

ToggleTheme ==
    /\ themeLog.toggles < MaxToggles
    /\ darkClass' = setTheme(~darkClass)
    /\ storedTheme' = StoredAfterToggle(darkClass)
    /\ themeLog' = Logged("toggleTheme")
    /\ UNCHANGED prefersDark

\* the user changes the colour scheme of the system
PreferenceChanges ==
    /\ prefersDark' = ~prefersDark
    /\ UNCHANGED <<storedTheme, darkClass, themeLog>>

NoThemeCalls ==
    [toggles |-> 0, last |-> "none", before |-> FALSE,
     previous |-> "none", beforePrevious |-> FALSE]

\* a first visit: nothing stored, no class, no call yet
ThemeStart ==
    /\ storedTheme = Null
    /\ darkClass = FALSE
    /\ prefersDark = FALSE
    /\ themeLog = NoThemeCalls

\* the call sets of the modules, one per exported function
Calls ==
    <<ViewCalls, ColorCalls, RangeCalls, LegendCalls, FormatCalls,
      BoundingBoxCalls, ViewStateCalls, MergeCalls, StatsCalls>>

Init ==
    /\ \E i \in DOMAIN Calls : arg \in Calls[i]
    /\ pc = "ready"
    /\ ret = Undefined
    /\ LoaderStart
    /\ ThemeStart

CalculateViewStateForBounds ==
    /\ pc = "ready"
    /\ arg.fn = "calculateViewStateForBounds"
    /\ ret' = calculateViewStateForBounds(arg.bounds)
    /\ pc' = "returned"
    /\ UNCHANGED <<arg, loaderVars, themeVars>>

GetColor ==
    /\ pc = "ready"
    /\ arg.fn = "getColor"
    /\ ret' = getColor(arg.value, arg.min, arg.max, arg.colorScale)
    /\ pc' = "returned"
    /\ UNCHANGED <<arg, loaderVars, themeVars>>

GetDataRange ==
    /\ pc = "ready"
    /\ arg.fn = "getDataRange"
    /\ ret' = getDataRange(arg.data)
    /\ pc' = "returned"
    /\ UNCHANGED <<arg, loaderVars, themeVars>>

GenerateLegend ==
    /\ pc = "ready"
    /\ arg.fn = "generateLegend"
    /\ ret' = generateLegend(arg.min, arg.max, arg.steps, arg.colorScale)
    /\ pc' = "returned"
    /\ UNCHANGED <<arg, loaderVars, themeVars>>

GetStateBoundingBox ==
    /\ pc = "ready"
    /\ arg.fn = "getStateBoundingBox"
    /\ ret' = getStateBoundingBox(arg.geojson, arg.stateId)
    /\ pc' = "returned"
    /\ UNCHANGED <<arg, loaderVars, themeVars>>

GetViewStateForState ==
    /\ pc = "ready"
    /\ arg.fn = "getViewStateForState"
    /\ ret' = getViewStateForState(arg.geojson, arg.stateId)
    /\ pc' = "returned"
    /\ UNCHANGED <<arg, loaderVars, themeVars>>

GetDefaultViewState ==
    /\ pc = "ready"
    /\ arg.fn = "getDefaultViewState"
    /\ ret' = getDefaultViewState
    /\ pc' = "returned"
    /\ UNCHANGED <<arg, loaderVars, themeVars>>

\* stateNavigation.js keeps no state between calls: after a call of it has
\* returned, the caller makes another
NavigationFns ==
    {"calculateViewStateForBounds", "getStateBoundingBox",
     "getViewStateForState", "getDefaultViewState"}

NextCall ==
    /\ pc = "returned"
    /\ arg.fn \in NavigationFns
    /\ arg' \in FollowingCalls
    /\ pc' = "ready"
    /\ ret' = Undefined
    /\ UNCHANGED <<loaderVars, themeVars>>

MergeGeoJSONWithData ==
    /\ pc = "ready"
    /\ arg.fn = "mergeGeoJSONWithData"
    /\ ret' = mergeGeoJSONWithData(arg.geojson, arg.data, arg.idProperty)
    /\ pc' = "returned"
    /\ UNCHANGED <<arg, loaderVars, themeVars>>

FormatNumber ==
    /\ pc = "ready"
    /\ arg.fn = "formatNumber"
    /\ ret' = formatNumber(arg.value, arg.type)
    /\ pc' = "returned"
    /\ UNCHANGED <<arg, loaderVars, themeVars>>

GetStats ==
    /\ pc = "ready"
    /\ arg.fn = "getStats"
    /\ ret' = getStats(arg.hasData, arg.data, SelectedValue(arg.data, arg.selected))
    /\ pc' = "returned"
    /\ UNCHANGED <<arg, loaderVars, themeVars>>

Next ==
    \/ CalculateViewStateForBounds
    \/ GetColor
    \/ GetDataRange
    \/ GenerateLegend
    \/ FormatNumber
    \/ GetStateBoundingBox
    \/ GetViewStateForState
    \/ GetDefaultViewState
    \/ NextCall
    \/ MergeGeoJSONWithData
    \/ GetStats

Spec == Init /\ [][Next]_vars

(***************************************************************************)
(* The data loader: calls of the loaders, their fetches and clearCache, in *)
(* every order.                                                            *)
(***************************************************************************)
LoaderInit ==
    /\ arg = [fn |-> "none"]
    /\ pc = "returned"
    /\ ret = Undefined
    /\ LoaderStart
    /\ ThemeStart

LoaderNext ==
    \/ \E f \in Files : CallLoader(f) /\ UNCHANGED <<arg, pc, ret, themeVars>>
    \/ CallLoadAllData /\ UNCHANGED <<arg, pc, ret, themeVars>>
    \/ \E i \in 1..Len(calls), f \in Files : FetchCompletes(i, f) /\ UNCHANGED <<arg, pc, ret, themeVars>>
    \/ \E i \in 1..Len(calls), f \in Files : FetchFails(i, f) /\ UNCHANGED <<arg, pc, ret, themeVars>>
    \/ \E i \in 1..Len(calls) : LoadAllDataReturns(i) /\ UNCHANGED <<arg, pc, ret, themeVars>>
    \/ ClearCache /\ UNCHANGED <<arg, pc, ret, themeVars>>

LoaderSpec == LoaderInit /\ [][LoaderNext]_vars

(***************************************************************************)
(* The theme: page loads (initTheme), toggles and changes of the system    *)
(* preference, in every order, from every stored theme a browser can hold. *)
(***************************************************************************)
ThemeInit ==
    /\ arg = [fn |-> "none"]
    /\ pc = "returned"
    /\ ret = Undefined
    /\ LoaderStart
    /\ storedTheme \in {Null, Str(""), Str("dark"), Str("light")}
    /\ darkClass \in BOOLEAN
    /\ prefersDark \in BOOLEAN
    /\ themeLog = NoThemeCalls

ThemeNext ==
    \/ InitTheme /\ UNCHANGED <<arg, pc, ret, loaderVars>>
    \/ ToggleTheme /\ UNCHANGED <<arg, pc, ret, loaderVars>>
    \/ PreferenceChanges /\ UNCHANGED <<arg, pc, ret, loaderVars>>

ThemeSpec == ThemeInit /\ [][ThemeNext]_vars

(***************************************************************************)
(* Properties.                                                             *)
(***************************************************************************)
\* the call of fn has returned
Returned(fn) == pc = "returned" /\ arg.fn = fn

\* a finite coordinate in half degrees, and a box's larger span in half degrees
HalfDegrees(x) == (2 * x.n) \div x.d

SpanHalfDeg(b) ==
    LET lat == HalfDegrees(b.maxLat) - HalfDegrees(b.minLat)
        lng == HalfDegrees(b.maxLng) - HalfDegrees(b.minLng)
    IN  IF lat > lng THEN lat ELSE lng

\* twice the zoom of the tier of a span given in half degrees
TierZoomTimes2(s) ==
    IF s < 2 THEN 16
    ELSE IF s < 4 THEN 14
    ELSE IF s < 8 THEN 12
    ELSE IF s < 12 THEN 11
    ELSE IF s < 16 THEN 10
    ELSE 9

\* C1: every view state calculateViewStateForBounds returns, for a present
\* box and for null alike, has transitionDuration 1500, a fly-to
\* interpolator, pitch 0 and bearing 0.
C1_TransitionOnEveryViewState ==
    Returned("calculateViewStateForBounds") =>
        /\ {"transitionDuration", "transitionInterpolator"} \subseteq DOMAIN ret
        /\ ret.transitionDuration = JsNum(1500, 1)
        /\ ret.transitionInterpolator = FlyToInterpolator
        /\ ret.pitch = JsNum(0, 1)
        /\ ret.bearing = JsNum(0, 1)

\* C2: for a present box the zoom is the tier of s = max(lat span, lng span):
\* s < 1 -> 8, s < 2 -> 7, s < 4 -> 6, s < 6 -> 5.5, s < 8 -> 5, else 4.5;
\* and no larger span gets a higher zoom.
C2_ZoomTiers ==
    (Returned("calculateViewStateForBounds") /\ arg.bounds # Null) =>
        IF arg.bounds = EmptyBox
        THEN ret.zoom = JsNum(8, 1)
        ELSE
            LET s == SpanHalfDeg(arg.bounds)
            IN  /\ ret.zoom = JsNum(TierZoomTimes2(s), 2)
                /\ \A b \in {EmptyBox} \cup
                            {[t |-> "object", minLng |-> JsNum(0, 1),
                              maxLng |-> JsNum(w, 2), minLat |-> JsNum(0, 1),
                              maxLat |-> JsNum(0, 1)] : w \in 0..(2 * MaxHalfDeg + 2)} :
                       LET z == calculateViewStateForBounds(b).zoom
                       IN  /\ (b # EmptyBox /\ SpanHalfDeg(b) >= s) => JsLe(z, ret.zoom)
                           /\ (b = EmptyBox \/ SpanHalfDeg(b) <= s) => JsLe(ret.zoom, z)

\* C2 witness: a square box spanning exactly 1 degree each way got zoom 7
C2_Witness ==
    /\ Returned("calculateViewStateForBounds")
    /\ arg.bounds # Null
    /\ arg.bounds # EmptyBox
    /\ JsSub(arg.bounds.maxLat, arg.bounds.minLat) = JsNum(1, 1)
    /\ JsSub(arg.bounds.maxLng, arg.bounds.minLng) = JsNum(1, 1)
    /\ ret.zoom = JsNum(7, 1)

\* the palette a getColor call uses
PaletteOf(a) == IF a.colorScale = Undefined THEN COLOR_SCALES_blue.a ELSE a.colorScale.a

\* the values getColor takes for numbers
Numeric(v) == v.t \in {"num", "inf"}

\* the position (from 1) of colour c in palette P, 0 when it is not in it
PositionIn(P, c) ==
    IF \E i \in 1..Len(P) : P[i] = c
    THEN CHOOSE i \in 1..Len(P) : P[i] = c
    ELSE 0

\* C3: for min < max and min <= v <= max, getColor returns
\* palette[floor(((v - min) / (max - min)) * (L - 1))]; the value halfway
\* gets palette[floor((L - 1) / 2)], and getColor(50, 0, 100, blue) is blue[4].
C3_IndexFormula ==
    (/\ Returned("getColor")
     /\ arg.value.t = "num"
     /\ JsLt(arg.min, arg.max)
     /\ JsLe(arg.min, arg.value)
     /\ JsLe(arg.value, arg.max)) =>
        LET P == PaletteOf(arg)
            L == Len(P)
            v == arg.value.n
            lo == arg.min.n
            hi == arg.max.n
        IN  /\ ret = P[(((v - lo) * (L - 1)) \div (hi - lo)) + 1]
            /\ (2 * v = lo + hi) => ret = P[((L - 1) \div 2) + 1]
            /\ (arg = MiddleExample) => ret = Str("#60a5fa")

\* C3 witness: getColor(50, 0, 100, blue) returned the fifth blue
C3_Witness ==
    /\ Returned("getColor")
    /\ arg = MiddleExample
    /\ ret = COLOR_SCALES_blue.a[5]

\* C4: for a fixed range min < max and a palette of length >= 2, the palette
\* index getColor chooses is non-decreasing in the value.
C4_Monotone ==
    (/\ Returned("getColor")
     /\ Numeric(arg.value)
     /\ JsLt(arg.min, arg.max)
     /\ Len(PaletteOf(arg)) >= 2) =>
        \A v2 \in {x \in ColorValues : Numeric(x)} :
            LET P == PaletteOf(arg)
                c2 == getColor(v2, arg.min, arg.max, arg.colorScale)
            IN  JsLe(arg.value, v2) =>
                    /\ PositionIn(P, ret) >= 1
                    /\ PositionIn(P, c2) >= 1
                    /\ PositionIn(P, ret) <= PositionIn(P, c2)

\* C4 witness: a value strictly inside the range whose colour lies strictly
\* between the colours of a smaller and of a larger value
C4_Witness ==
    /\ Returned("getColor")
    /\ arg.value.t = "num"
    /\ JsLt(arg.min, arg.value)
    /\ JsLt(arg.value, arg.max)
    /\ Len(PaletteOf(arg)) >= 3
    /\ PositionIn(PaletteOf(arg), ret) > 1
    /\ PositionIn(PaletteOf(arg), ret) < Len(PaletteOf(arg))

\* C5: for a null, undefined or NaN value getColor returns the gray
\* '#e5e7eb' whatever min, max and palette are, also when min == max.
C5_MissingIsGray ==
    (Returned("getColor") /\ arg.value \in Missing) => ret = Str("#e5e7eb")

\* C5 witness: a missing value coloured over a degenerate range
C5_Witness ==
    /\ Returned("getColor")
    /\ arg.value = Null
    /\ arg.min = arg.max
    /\ ret = Str("#e5e7eb")

\* C6: when min == max getColor returns palette[floor(L / 2)] for every
\* numeric value.
C6_DegenerateRangeMiddle ==
    (Returned("getColor") /\ Numeric(arg.value) /\ arg.min = arg.max) =>
        ret = PaletteOf(arg)[(Len(PaletteOf(arg)) \div 2) + 1]

\* C6 witness: a value above min == max, with a palette of even length
C6_Witness ==
    /\ Returned("getColor")
    /\ arg.value.t = "num"
    /\ arg.min = arg.max
    /\ JsLt(arg.max, arg.value)
    /\ Len(PaletteOf(arg)) = 4
    /\ ret = PaletteOf(arg)[3]

\* C7: for min < max, a palette of length L >= 1 and any numeric value the
\* result is an entry of the palette: palette[0] for v <= min and
\* palette[L - 1] for v >= max.
C7_AlwaysAPaletteEntry ==
    (Returned("getColor") /\ Numeric(arg.value) /\ JsLt(arg.min, arg.max)) =>
        LET P == PaletteOf(arg)
        IN  /\ PositionIn(P, ret) >= 1
            /\ JsLe(arg.value, arg.min) => ret = P[1]
            /\ JsLe(arg.max, arg.value) => ret = P[Len(P)]

\* the valid values of a value map: all but null, undefined and NaN
ValidSet(data) == {data[i] : i \in DOMAIN data} \ Missing

\* C8: for a map with a valid entry, getDataRange returns min <= max, both
\* valid values of the map, min below and max above every valid value.
C8_RangeOfValidValues ==
    (Returned("getDataRange") /\ ValidSet(arg.data) # {}) =>
        /\ JsLe(ret.min, ret.max)
        /\ ret.min \in ValidSet(arg.data)
        /\ ret.max \in ValidSet(arg.data)
        /\ \A x \in ValidSet(arg.data) : JsLe(ret.min, x) /\ JsLe(x, ret.max)

\* C8 witness: a map with a NaN entry, a null entry and a valid one; the
\* range is the valid value
C8_Witness ==
    /\ Returned("getDataRange")
    /\ NaN \in {arg.data[i] : i \in DOMAIN arg.data}
    /\ Null \in {arg.data[i] : i \in DOMAIN arg.data}
    /\ ValidSet(arg.data) = {JsNum(2, 1)}
    /\ ret = [min |-> JsNum(2, 1), max |-> JsNum(2, 1)]

\* C9: getDataRange returns {min: 0, max: 0} for the empty map and for a map
\* whose entries are all missing.
C9_NoValidValues ==
    (Returned("getDataRange") /\ ValidSet(arg.data) = {}) =>
        ret = [min |-> JsNum(0, 1), max |-> JsNum(0, 1)]

\* C9 witness: a map of two missing entries gave {min: 0, max: 0}
C9_Witness ==
    /\ Returned("getDataRange")
    /\ arg.data = <<NaN, Null>>
    /\ ret = [min |-> JsNum(0, 1), max |-> JsNum(0, 1)]

\* C10: getDataRange ignores +Infinity and -Infinity entries, so the min and
\* max it returns are always finite.
C10_RangeIsFinite ==
    Returned("getDataRange") => (ret.min.t = "num" /\ ret.max.t = "num")

\* the number of intervals a generateLegend call asks for
StepsOf(a) == IF a.steps = Undefined THEN 5 ELSE a.steps.n

\* the nearest integer to a number of the model, a half going up
NearestInteger(x) == IF x.d = 1 THEN x ELSE JsNum(x.n + 1, 2)

\* C11: generateLegend returns exactly `steps` intervals, in increasing
\* order, each one's reported max being the next one's reported min.
C11_Contiguous ==
    Returned("generateLegend") =>
        LET I == ret.a
            n == StepsOf(arg)
        IN  /\ Len(I) = n
            /\ \A i \in 1..n : JsLe(I[i].min, I[i].max)
            /\ \A i \in 1..(n - 1) :
                   /\ I[i].max = I[i + 1].min
                   /\ JsLe(I[i].min, I[i + 1].min)
                   /\ JsLe(I[i].max, I[i + 1].max)

\* C11 witness: three intervals over a range of non-integer width, each
\* starting where the one before ends
C11_Witness ==
    /\ Returned("generateLegend")
    /\ StepsOf(arg) = 3
    /\ JsSub(arg.max, arg.min) = JsNum(7, 2)
    /\ Len(ret.a) = 3
    /\ ret.a[1].max = ret.a[2].min
    /\ ret.a[2].max = ret.a[3].min
    /\ JsLt(ret.a[1].min, ret.a[2].min)
    /\ JsLt(ret.a[2].min, ret.a[3].min)

C13_LegendColors ==
    (Returned("generateLegend") /\ StepsOf(arg) >= 2) =>
        LET P == PaletteOf(arg)
            L == Len(P)
            n == StepsOf(arg)
            I == ret.a
        IN  /\ \A k \in 1..n : I[k].color = P[(((k - 1) * (L - 1)) \div (n - 1)) + 1]
            /\ I[1].color = P[1]
            /\ I[n].color = P[L]
            /\ \A k \in 1..(n - 1) :
                   PositionIn(P, I[k].color) <= PositionIn(P, I[k + 1].color)

\* C13 witness: three intervals over the nine blues are coloured with the
\* first, the fifth and the last blue
C13_Witness ==
    /\ Returned("generateLegend")
    /\ StepsOf(arg) = 3
    /\ arg.colorScale = COLOR_SCALES_blue
    /\ ret.a[1].color = Str("#eff6ff")
    /\ ret.a[2].color = Str("#60a5fa")
    /\ ret.a[3].color = Str("#1e40af")

\* C14: with steps == 1 generateLegend returns a single interval over the
\* whole range (its ends as displayed, rounded), coloured with the palette's
\* first entry.
C14_SingleIntervalFirstColor ==
    (Returned("generateLegend") /\ StepsOf(arg) = 1) =>
        /\ Len(ret.a) = 1
        /\ ret.a[1].min = NearestInteger(arg.min)
        /\ ret.a[1].max = NearestInteger(arg.max)
        /\ ret.a[1].color = PaletteOf(arg)[1]

\* C15: formatNumber returns 'N/A' for null, undefined and NaN under every
\* unit kind.
C15_MissingIsNA ==
    (Returned("formatNumber") /\ arg.value \in Missing) => ret = Str("N/A")

\* C15 witness: NaN formatted as a percentage gave 'N/A'
C15_Witness ==
    /\ Returned("formatNumber")
    /\ arg.value = NaN
    /\ arg.type = Str("percent")
    /\ ret = Str("N/A")

\* C16: formatNumber returns 'N/A' for +Infinity and -Infinity under every
\* unit kind.
C16_InfinityIsNA ==
    (Returned("formatNumber") /\ arg.value.t = "inf") => ret = Str("N/A")

\* the whole number nearest to |x|, a half going away from zero
NearestWhole(x) ==
    CHOOSE k \in {Abs(x.n) \div x.d, (Abs(x.n) \div x.d) + 1} :
        /\ 2 * Abs(x.n) - x.d < 2 * k * x.d
        /\ 2 * k * x.d <= 2 * Abs(x.n) + x.d

HasFeatureList(geojson) == geojson.t = "object" /\ geojson.features.t = "array"

\* the positions of the features whose properties.id is the requested id
MatchingPositions(geojson, stateId) ==
    {i \in 1..Len(geojson.features.a) : geojson.features.a[i].properties.id = stateId}

\* C18: getStateBoundingBox returns null, and raises no error, when no
\* feature of the collection has properties.id equal to the requested id,
\* and when the collection is null or has no features array.
C18_NoMatchIsNull ==
    (/\ Returned("getStateBoundingBox")
     /\ \/ ~HasFeatureList(arg.geojson)
        \/ MatchingPositions(arg.geojson, arg.stateId) = {}) =>
        ret = Null

\* C18 witness: a collection of two features, neither with the requested
\* id, gave null
C18_Witness ==
    /\ Returned("getStateBoundingBox")
    /\ HasFeatureList(arg.geojson)
    /\ Len(arg.geojson.features.a) = 2
    /\ MatchingPositions(arg.geojson, arg.stateId) = {}
    /\ ret = Null

\* the [lng, lat] pairs found anywhere below coords
RECURSIVE PairsBelow(_)
PairsBelow(coords) ==
    IF coords.a = <<>> THEN {}
    ELSE IF coords.a[1].t = "num" THEN {coords}
    ELSE UNION {PairsBelow(coords.a[i]) : i \in 1..Len(coords.a)}

\* the first feature with the requested id
MatchedFeature(geojson, stateId) ==
    LET at == MatchingPositions(geojson, stateId)
    IN  geojson.features.a[CHOOSE i \in at : \A j \in at : i <= j]

\* the least and the greatest of a non-empty set of integers
Least(S) == CHOOSE x \in S : \A y \in S : x <= y

Greatest(S) == CHOOSE x \in S : \A y \in S : x >= y

\* C19: for a matched feature with at least one coordinate pair the box is
\* the tight bounds of all its pairs, at any depth of nesting: minLng is the
\* least and maxLng the greatest longitude, minLat the least and maxLat the
\* greatest latitude; no pair of another feature counts.
C19_TightBox ==
    (/\ Returned("getStateBoundingBox")
     /\ HasFeatureList(arg.geojson)
     /\ MatchingPositions(arg.geojson, arg.stateId) # {}
     /\ PairsBelow(MatchedFeature(arg.geojson, arg.stateId).geometry.coordinates) # {}) =>
        LET pairs == PairsBelow(MatchedFeature(arg.geojson, arg.stateId).geometry.coordinates)
            lngs == {p.a[1].n : p \in pairs}
            lats == {p.a[2].n : p \in pairs}
        IN  /\ ret.t = "object"
            /\ ret.minLng = JsNum(Least(lngs), 1)
            /\ ret.maxLng = JsNum(Greatest(lngs), 1)
            /\ ret.minLat = JsNum(Least(lats), 1)
            /\ ret.maxLat = JsNum(Greatest(lats), 1)
            /\ \A p \in pairs :
                /\ JsLe(ret.minLng, p.a[1]) /\ JsLe(p.a[1], ret.maxLng)
                /\ JsLe(ret.minLat, p.a[2]) /\ JsLe(p.a[2], ret.maxLat)

\* C19 witness: the second feature of a collection, a MultiPolygon with the
\* pairs [1,-1] and [-1,0], gave the box -1..1 by -1..0
C19_Witness ==
    /\ Returned("getStateBoundingBox")
    /\ arg.geojson =
         FeatureCollection(<<OtherFeature(Str("B")),
            Feature(Str("A"),
                Arr(<<Arr(<<Arr(<<Arr(<<JsNum(1, 1), JsNum(-1, 1)>>),
                                  Arr(<<JsNum(1, 1), JsNum(-1, 1)>>)>>)>>),
                      Arr(<<Arr(<<Arr(<<JsNum(-1, 1), JsNum(0, 1)>>)>>)>>)>>))>>)
    /\ ret = [t |-> "object", minLng |-> JsNum(-1, 1), maxLng |-> JsNum(1, 1),
              minLat |-> JsNum(-1, 1), maxLat |-> JsNum(0, 1)]

\* C20: for a present box the centre is the midpoint of the box: longitude
\* (minLng + maxLng) / 2 and latitude (minLat + maxLat) / 2; for a box of
\* zero area that is the point itself, and the zoom is 8. For the box of a
\* feature without coordinate pairs the quotient (Infinity - Infinity) / 2
\* is NaN on both axes.
C20_CentreIsMidpoint ==
    (Returned("calculateViewStateForBounds") /\ arg.bounds # Null) =>
        IF arg.bounds = EmptyBox
        THEN ret.longitude = NaN /\ ret.latitude = NaN
        ELSE
            /\ ret.longitude =
                 JsNum(HalfDegrees(arg.bounds.minLng) + HalfDegrees(arg.bounds.maxLng), 4)
            /\ ret.latitude =
                 JsNum(HalfDegrees(arg.bounds.minLat) + HalfDegrees(arg.bounds.maxLat), 4)
            /\ JsLe(arg.bounds.minLng, ret.longitude) /\ JsLe(ret.longitude, arg.bounds.maxLng)
            /\ JsLe(arg.bounds.minLat, ret.latitude) /\ JsLe(ret.latitude, arg.bounds.maxLat)
            /\ (arg.bounds.minLng = arg.bounds.maxLng /\ arg.bounds.minLat = arg.bounds.maxLat) =>
                /\ ret.longitude = arg.bounds.minLng
                /\ ret.latitude = arg.bounds.minLat
                /\ ret.zoom = JsNum(8, 1)

\* C20 witness: the zero-area box at longitude -1.5, latitude 2 gave that
\* point as the centre and zoom 8
C20_Witness ==
    /\ Returned("calculateViewStateForBounds")
    /\ arg.bounds = [t |-> "object", minLng |-> JsNum(-3, 2), maxLng |-> JsNum(-3, 2),
                     minLat |-> JsNum(2, 1), maxLat |-> JsNum(2, 1)]
    /\ ret.longitude = JsNum(-3, 2)
    /\ ret.latitude = JsNum(2, 1)
    /\ ret.zoom = JsNum(8, 1)

\* C21: calculateViewStateForBounds(null), and getViewStateForState for an
\* id no feature has (or for no collection), return the national default:
\* longitude -102.5528, latitude 23.6345, zoom 4.5, pitch 0, bearing 0; the
\* same after every earlier call of the module.
C21_FixedDefault ==
    (\/ Returned("calculateViewStateForBounds") /\ arg.bounds = Null
     \/ /\ Returned("getViewStateForState")
        /\ \/ ~HasFeatureList(arg.geojson)
           \/ MatchingPositions(arg.geojson, arg.stateId) = {}) =>
        /\ ret.longitude = JsNum(-1025528, 10000)
        /\ ret.latitude = JsNum(236345, 10000)
        /\ ret.zoom = JsNum(45, 10)
        /\ ret.pitch = JsNum(0, 1)
        /\ ret.bearing = JsNum(0, 1)
        /\ ret = calculateViewStateForBounds(Null)

\* C21 witness: getViewStateForState for the id "C", which neither of the
\* two features has, gave the national default
C21_Witness ==
    /\ Returned("getViewStateForState")
    /\ arg.stateId = Str("C")
    /\ HasFeatureList(arg.geojson)
    /\ Len(arg.geojson.features.a) = 2
    /\ ret.longitude = JsNum(-1025528, 10000)
    /\ ret.latitude = JsNum(236345, 10000)
    /\ ret.zoom = JsNum(45, 10)

\* the property that identifies a feature in a call of mergeGeoJSONWithData
IdPropertyOf(call) == IF call.idProperty = Undefined THEN Str("id") ELSE call.idProperty

\* C22: for a valid FeatureCollection and a data object every feature of the
\* result has properties.value equal to the data entry for the feature's id
\* when the data has one (0 included) and null when it has none; the other
\* properties, the number of features and the input are unchanged.
C22_MergedValues ==
    (/\ Returned("mergeGeoJSONWithData")
     /\ arg.geojson # Null
     /\ arg.geojson.type = Str("FeatureCollection")
     /\ arg.geojson.features.t = "array"
     /\ arg.data \notin {Null, Undefined}) =>
        /\ ret.t = "object"
        /\ Len(ret.features.a) = Len(arg.geojson.features.a)
        /\ \A i \in 1..Len(arg.geojson.features.a) :
            LET feature == arg.geojson.features.a[i]
                id == PropertyOf(feature.properties, IdPropertyOf(arg))
                entry == arg.data.entries[id.s]
            IN  /\ ret.features.a[i].properties.value =
                     (IF entry = Undefined THEN Null ELSE entry)
                /\ ret.features.a[i].properties.id = feature.properties.id
                /\ ret.features.a[i].properties.code = feature.properties.code
                /\ feature.properties.value = Undefined

\* C25: every box getStateBoundingBox returns is well formed: its four
\* bounds are finite numbers with minLng <= maxLng and minLat <= maxLat,
\* also for a matched feature whose coordinates array is empty.
C25_WellFormedBox ==
    (Returned("getStateBoundingBox") /\ ret # Null) =>
        /\ ret.t = "object"
        /\ \A bound \in {ret.minLng, ret.maxLng, ret.minLat, ret.maxLat} : bound.t = "num"
        /\ JsLe(ret.minLng, ret.maxLng)
        /\ JsLe(ret.minLat, ret.maxLat)

\* the range of a generateLegend call in half units
SpanInHalves(call) ==
    (2 * (call.max.n * call.min.d - call.min.n * call.max.d)) \div (call.min.d * call.max.d)

\* v_i = min + (i / (steps - 1)) * (max - min), as the expression evaluates
RepresentativeValue(call, i) ==
    DoubleAdd(DoubleOf(call.min),
              DoubleTimesHalves(DoubleRatio(i, StepsOf(call) - 1), SpanInHalves(call)))

\* C24: for steps >= 2 and min < max the colour of every legend interval i
\* is the colour getColor gives v_i = min + (i / (steps - 1)) * (max - min),
\* and v_i lies within [min + i * step, min + (i + 1) * step].
C24_LegendColorIsMapColor ==
    (/\ Returned("generateLegend")
     /\ StepsOf(arg) >= 2
     /\ JsLt(arg.min, arg.max)) =>
        \A i \in 0..(StepsOf(arg) - 1) :
            LET v == RepresentativeValue(arg, i)
            IN  /\ ret.a[i + 1].color =
                     getColorOfDouble(v, arg.min, arg.max, Arr(PaletteOf(arg)))
                /\ DoubleLe(LegendBoundOfDouble(arg.min, arg.max, StepsOf(arg), i), v)
                /\ DoubleLe(v, LegendBoundOfDouble(arg.min, arg.max, StepsOf(arg), i + 1))

\* C23: a call of loadDatasets, loadCities or loadGeoJSON made after a load
\* of the same file has completed, with no clearCache in between, returns
\* the cached value without a fetch; the first call of each loader after a
\* clearCache (which sets every cache field to null) fetches again.
C23_CachedUntilCleared ==
    \A i \in 1..Len(calls), f \in {"datasets", "cities", "geojson"} :
        LET load == calls[i].parts[f]
        IN  /\ (load.st # "none" /\ load.afterCompleted) =>
                (load.st = "hit" /\ load.val # Null)
            /\ (load.st # "none" /\ load.afterClear) => load.st # "hit"

\* C26: with no clearCache in between, two completed calls of loadAirports,
\* and two completed calls of loadAllData, return the same
\* airportTypeColors and airportTypeLabels, whether the airports came from
\* the cache or from a fetch.
C26_SameAirportFields ==
    \A i, j \in 1..Len(calls) :
        (/\ calls[i].fn \in {"airports", "all"}
         /\ calls[j].fn = calls[i].fn
         /\ calls[i].state = "resolved"
         /\ calls[j].state = "resolved"
         /\ calls[i].epoch = epoch
         /\ calls[j].epoch = epoch) =>
            /\ calls[i].result.airportTypeColors = calls[j].result.airportTypeColors
            /\ calls[i].result.airportTypeLabels = calls[j].result.airportTypeLabels

\* C27: between two clearCache calls every storage file is fetched at most
\* once, however the calls of the loaders overlap (a fetch that failed is
\* not counted).
C27_FetchedAtMostOnce == \A f \in Files : loaded[f].fetches <= 1

\* C28: what the cache holds was fetched by a load started after the last
\* clearCache, and a loadAllData that completes returns its datasets with
\* the stateNames, never with null.
C28_NoStaleRepopulation ==
    /\ \A field \in DOMAIN cache :
        cache[field] # Null => cache[field].fetchedIn = epoch
    /\ \A i \in 1..Len(calls) :
        (calls[i].fn = "all" /\ calls[i].state = "resolved") =>
            calls[i].result.stateNames # Null

\* C29: once toggleTheme has been called, after every later initTheme and
\* toggleTheme 'dark' is stored iff the document has the class 'dark'; a
\* toggleTheme flips the class, two toggleTheme calls in a row restore it,
\* and an initTheme after a toggle applies the stored theme whatever the
\* system preference is.
C29_ThemeAgrees ==
    /\ themeLog.toggles >= 1 =>
        /\ storedTheme \in {Str("dark"), Str("light")}
        /\ (storedTheme = Str("dark")) <=> darkClass
    /\ themeLog.last = "toggleTheme" => darkClass # themeLog.before
    /\ (themeLog.last = "toggleTheme" /\ themeLog.previous = "toggleTheme") =>
        darkClass = themeLog.beforePrevious
    /\ (themeLog.last = "initTheme" /\ themeLog.toggles >= 1) =>
        /\ darkClass = (storedTheme = Str("dark"))
        /\ darkClass = themeLog.before

\* C29 witness: after a toggle to light and a page load under a dark system
\* preference the document has no 'dark' class
C29_Witness ==
    /\ themeLog.last = "initTheme"
    /\ themeLog.previous = "toggleTheme"
    /\ prefersDark
    /\ storedTheme = Str("light")
    /\ ~darkClass

\* the selected region's value is a valid entry of the dataset
SelectedIsValid ==
    /\ arg.hasData
    /\ arg.selected >= 1
    /\ ~LooseEqNull(arg.data[arg.selected])
    /\ ~isNaN(arg.data[arg.selected])

\* C30: for a selected region whose value is a valid entry of the dataset,
\* the percentile getStats computes is a number in [0, 100], also when all
\* valid values are equal, and the rank, as computed and as displayed, is in
\* 1..total
C30_StatsWellDefined ==
    (pc = "returned" /\ arg.fn = "getStats" /\ SelectedIsValid) =>
        /\ ret.percentile.t = "num"
        /\ JsLe(JsNum(0, 1), ret.percentile)
        /\ JsLe(ret.percentile, JsNum(100, 1))
        /\ JsLe(JsNum(1, 1), ret.rank) /\ JsLe(ret.rank, ret.total)
        /\ JsLe(JsNum(1, 1), DisplayedRank(ret))
        /\ JsLe(DisplayedRank(ret), ret.total)

====
